---------------------------- MODULE Spec2Model ----------------------------
(***************************************************************************)
(* Session store and authentication middleware of the contract-management  *)
(* server (server/middleware/auth.ts, server/routes/auth.ts), its rate      *)
(* limiter and CSRF guard (security middleware) and the membership          *)
(* workflow of its organizations (server/routes/organizations.ts).          *)
(*                                                                         *)
(* Each subsystem has its own specification over the same variables: Spec   *)
(* (sessions), SpecRate (rate limiter), SpecCsrf (CSRF token exchange),     *)
(* SpecOrg (membership of organizations), SpecTransaction (creation and     *)
(* transactions of an organization), SpecApproval (the approval rule),      *)
(* SpecRouting (validateRoutingNumber) and SpecPipeline (the middleware     *)
(* stack of server/index.ts); they share no state but the clock.            *)
(*                                                                         *)
(* Time is the value of Date.now() in milliseconds.  A handler runs to its  *)
(* first await without interruption (single-threaded event loop), so the   *)
(* synchronous part of a handler is one step taken at one clock reading;    *)
(* the part after `await db...` is a second step, and anything may run in   *)
(* between.  The cleanup timer is a step that may be taken at any instant:  *)
(* Node only promises that a timer does not fire early.  The users table    *)
(* belongs to the database, an external collaborator: what a lookup         *)
(* returns is an input of the step that resumes after it.  The             *)
(* organizations table is modelled, because its handlers read a row in one  *)
(* query and write it in another: a handler is the step of its select and   *)
(* the step of its update, and other handlers may run in between.           *)
(***************************************************************************)
EXTENDS Integers, Sequences, FiniteSets, Bags, TLC

(* ------------------------------ bounds -------------------------------- *)

\* Number of clock advances in a behaviour.
MaxTicks == 2

\* Number of requests suspended on the user lookup at the same time.
MaxInflight == 1

(* ----------------------------- constants ------------------------------ *)

SESSION_DURATION == 24 * 60 * 60 * 1000

INACTIVE_TIMEOUT == 30 * 60 * 1000

\* Amounts by which the clock advances between two steps.
TimeSteps == {1, INACTIVE_TIMEOUT, SESSION_DURATION}

\* users.id values.
Users == {"u1", "u2"}

\* Session ids, in the order generateSecureToken returns them.
TokenOrder == <<"t1", "t2">>

Tokens == {TokenOrder[i] : i \in 1 .. Len(TokenOrder)}

\* req.cookies['session-id'] || req.headers['x-session-id'] when neither is set.
NoSid == ""

\* req.user when no identity is attached.
NoUser == "none"

Methods == {"OPTIONS", "GET"}

\* Request paths, as sequences of characters.
AuthPath == <<"/", "a", "u", "t", "h", "/", "x">>

ApiPath == <<"/", "a", "p", "i">>

Paths == {AuthPath, ApiPath}

\* What `await db.select().from(users).where(eq(users.id, userId))` does:
\* returns the row, returns no row, or throws.
DbResults == {"found", "missing", "error"}

\* What `db.query.users.findFirst({ where: eq(users.email, email) })`
\* returns in POST /auth/login: a row, or none (the handler then inserts one).
Accounts == {"existing", "absent"}

\* The account of a login that was refused before the lookup.
NotQueried == "not queried"

\* req.body.password of a login request, told by whose password it is: the
\* one the owner of the account chose, or another (the only case when there
\* is no account).
Passwords == {"owner", "other"}

VARIABLES
    now,        \* Date.now()
    ticks,      \* clock advances so far
    sessions,   \* the sessions Map: session id -> Session
    issued,     \* number of tokens generated so far
    inflight,   \* bag of requests suspended on the user lookup
    out,        \* what the last step answered
    rateLimitMap,   \* the rateLimitMap Map: client address -> RateLimitRecord
    jar,        \* the cookies a browser holds for the server: name -> cookie
    page,       \* the CSRF token the script of the page holds ("": none)
    organizations,  \* the organizations table: id -> row
    awaiting    \* bag of organization handlers between their select and their update

\* The session store and what is suspended on it.
authVars == <<sessions, issued, inflight>>

\* The browser side of the CSRF token exchange.
csrfVars == <<jar, page>>

\* The organizations table and the handlers working on it.
orgVars == <<organizations, awaiting>>

\* The state outside the session store and the /auth routes.
outsideAuth == <<rateLimitMap, csrfVars, orgVars>>

vars == <<now, ticks, sessions, issued, inflight, out, rateLimitMap, jar, page,
          organizations, awaiting>>

(* ------------------------------ helpers ------------------------------- *)

\* Map.prototype.set
MapSet(m, k, v) == [x \in DOMAIN m \cup {k} |-> IF x = k THEN v ELSE m[x]]

\* Map.prototype.delete
MapDelete(m, k) == [x \in DOMAIN m \ {k} |-> m[x]]

\* String.prototype.startsWith
StartsWith(p, prefix) ==
    /\ Len(p) >= Len(prefix)
    /\ SubSeq(p, 1, Len(prefix)) = prefix

\* The answer of a step: HTTP status (0: none sent), error text, whether
\* next() was called, the identity attached to the request (req.user), and
\* for the cleanup its cleanedCount.
Answer(op, sid, status, error, next, user) ==
    [op |-> op, sid |-> sid, status |-> status, error |-> error,
     next |-> next, user |-> user, cleaned |-> 0]

\* The answer of POST /auth/login, with the request it answers: whether an
\* account with the email exists and the password the body carried.
LoginAnswer(sid, status, error, user, account, password) ==
    [op |-> "login", sid |-> sid, status |-> status, error |-> error,
     next |-> FALSE, user |-> user, cleaned |-> 0,
     account |-> account, password |-> password]

(* ---------------------------- session store --------------------------- *)

\* Mutant: the generator can return a token it has returned before.
generateSecureTokenRepeating(n) == IF n < Len(TokenOrder) THEN {TokenOrder[1]} ELSE {}

\* generateSecureToken(32): 256 random bits.  The tokens it can return are
\* those not returned before (a repeat has probability 2^-256 per pair).
generateSecureToken(n) == IF n < Len(TokenOrder) THEN {TokenOrder[n + 1]} ELSE {}

\* The Session object built by createSession.
NewSession(userId, t) ==
    [userId |-> userId, expiresAt |-> t + SESSION_DURATION, lastActivity |-> t]

\* createSession: sessions.set(sessionId, session)
createSession(store, sessionId, userId, t) ==
    MapSet(store, sessionId, NewSession(userId, t))

\* Mutant: the expiry test also rejects at the instant expiresAt itself.
IsExpiredAtBoundary(session, t) == session.expiresAt <= t

\* The expiry test of authMiddleware and of GET /auth/verify.
IsExpired(session, t) == session.expiresAt < t

\* Mutant: the refresh is lost, the entry stays as it was read.
RefreshLost(session, t) == session

\* Mutant: the refresh extends the expiry by the inactivity timeout.
RefreshByInactiveTimeout(session, t) ==
    [session EXCEPT !.lastActivity = t, !.expiresAt = t + INACTIVE_TIMEOUT]

\* Mutant: the refresh records the activity and forgets to extend the expiry.
RefreshKeepsExpiry(session, t) == [session EXCEPT !.lastActivity = t]

\* "Update last activity and extend session"
Refresh(session, t) ==
    [session EXCEPT !.lastActivity = t, !.expiresAt = t + SESSION_DURATION]

\* Mutant: the cleanup removes a session at the instant its timeout is reached.
IsStaleAtBoundary(session, t) ==
    \/ session.expiresAt < t
    \/ session.lastActivity + INACTIVE_TIMEOUT <= t

\* Mutant: the cleanup removes a session only when both tests hold.
IsStaleBoth(session, t) ==
    /\ session.expiresAt < t
    /\ session.lastActivity + INACTIVE_TIMEOUT < t

\* Mutant: the cleanup tests the expiry only, not the inactivity.
IsStaleExpiryOnly(session, t) == session.expiresAt < t

\* The removal test of cleanupSessions.
IsStale(session, t) ==
    \/ session.expiresAt < t
    \/ session.lastActivity + INACTIVE_TIMEOUT < t

\* The store after cleanupSessions ran at time t.
cleanupSessions(store, t) ==
    [s \in {x \in DOMAIN store : ~IsStale(store[x], t)} |-> store[s]]

\* Mutant: the expired record is left in the store.
ExpireSessionKeeps(store, sid) == store

\* sessions.delete(sessionId) on expiry detection
ExpireSession(store, sid) == MapDelete(store, sid)

\* Mutant: logout empties the store.
RevokeAll(store, sid) == << >>

\* sessions.delete(sessionId) of POST /auth/logout
Revoke(store, sid) == MapDelete(store, sid)

\* Mutant: the lookup is built with a fixed user id, not the session's.
PendingFixedUser(kind, sid, userId) == [kind |-> kind, sid |-> sid, userId |-> "u1"]

\* A request suspended on the user lookup: which handler, the session id it
\* presented, and session.userId as read when the query was built.
Pending(kind, sid, userId) == [kind |-> kind, sid |-> sid, userId |-> userId]

\* cleanedCount of cleanupSessions run at time t.
cleanedCount(store, t) == Cardinality({x \in DOMAIN store : IsStale(store[x], t)})

(* -------------------------------- Init -------------------------------- *)

Init ==
    /\ now = 0
    /\ ticks = 0
    /\ sessions = << >>
    /\ issued = 0
    /\ inflight = EmptyBag
    /\ out = Answer("init", NoSid, 0, "", FALSE, NoUser)
    /\ rateLimitMap = << >>
    /\ jar = << >>
    /\ page = ""
    /\ organizations = << >>
    /\ awaiting = EmptyBag

(* ------------------------------- actions ------------------------------ *)

\* The clock advances.
Tick ==
    /\ UNCHANGED outsideAuth
    /\ \E d \in TimeSteps :
           /\ ticks < MaxTicks
           /\ now' = now + d
           /\ ticks' = ticks + 1
           /\ out' = Answer("tick", NoSid, 0, "", FALSE, NoUser)
           /\ UNCHANGED <<sessions, issued, inflight>>

\* setInterval(cleanupSessions, 5 * 60 * 1000)
Sweep ==
    /\ UNCHANGED outsideAuth
    /\ sessions' = cleanupSessions(sessions, now)
    /\ out' = [Answer("sweep", NoSid, 0, "", FALSE, NoUser)
                 EXCEPT !.cleaned = cleanedCount(sessions, now)]
    /\ UNCHANGED <<now, ticks, issued, inflight>>

\* POST /auth/login: find or create the user, then createSession.  The
\* awaits on the users table come before createSession and do not touch the
\* store, so the handler acts on it in one step, at createSession.  The
\* handler reads email and fullName; req.body.password is destructured and
\* never read, and the users table has no password column.  `account` is
\* what findFirst by email returns, `password` what the request carries;
\* the lookup comes after the check of the fields.
Login ==
    /\ UNCHANGED outsideAuth
    /\ \E hasFields \in BOOLEAN, u \in Users, password \in Passwords :
           IF ~hasFields
           THEN /\ out' = LoginAnswer(NoSid, 400, "Email and full name are required",
                                      NoUser, NotQueried, password)
                /\ UNCHANGED <<now, ticks, sessions, issued, inflight>>
           ELSE \E account \in Accounts, tok \in generateSecureToken(issued) :
                    /\ account = "absent" => password = "other"
                    /\ sessions' = createSession(sessions, tok, u, now)
                    /\ issued' = issued + 1
                    /\ out' = LoginAnswer(tok, 200, "", u, account, password)
                    /\ UNCHANGED <<now, ticks, inflight>>

\* GET /auth/google/callback: what Google's verification of the code gives
\* is an input; on success find or create the user, then createSession.
GoogleCallback ==
    /\ UNCHANGED outsideAuth
    /\ \E google \in {"unconfigured", "badQuery", "rejected", "verified"}, u \in Users :
           IF google = "unconfigured"
           THEN /\ out' = Answer("google", NoSid, 500, "Server configuration error",
                                 FALSE, NoUser)
                /\ UNCHANGED <<now, ticks, sessions, issued, inflight>>
           ELSE IF google = "badQuery"
           THEN /\ out' = Answer("google", NoSid, 400, "Invalid authorization code or state",
                                 FALSE, NoUser)
                /\ UNCHANGED <<now, ticks, sessions, issued, inflight>>
           ELSE IF google = "rejected"
           THEN /\ out' = Answer("google", NoSid, 400, "Authentication failed", FALSE, NoUser)
                /\ UNCHANGED <<now, ticks, sessions, issued, inflight>>
           ELSE \E tok \in generateSecureToken(issued) :
                    /\ sessions' = createSession(sessions, tok, u, now)
                    /\ issued' = issued + 1
                    /\ out' = Answer("google", tok, 200, "", FALSE, u)
                    /\ UNCHANGED <<now, ticks, inflight>>

\* authMiddleware up to `await db.select()`.
AuthRequest ==
    /\ UNCHANGED outsideAuth
    /\ \E method \in Methods, path \in Paths, sid \in Tokens \cup {NoSid} :
           IF method = "OPTIONS"
           THEN /\ out' = Answer("preflight", NoSid, 200, "", FALSE, NoUser)
                /\ UNCHANGED <<now, ticks, sessions, issued, inflight>>
           ELSE IF StartsWith(path, <<"/", "a", "u", "t", "h">>)
           THEN /\ out' = Answer("authSkip", NoSid, 0, "", TRUE, NoUser)
                /\ UNCHANGED <<now, ticks, sessions, issued, inflight>>
           ELSE IF sid = NoSid
           THEN /\ out' = Answer("auth", sid, 401, "Authentication required", FALSE, NoUser)
                /\ UNCHANGED <<now, ticks, sessions, issued, inflight>>
           ELSE IF sid \notin DOMAIN sessions
           THEN /\ out' = Answer("auth", sid, 401, "Invalid session", FALSE, NoUser)
                /\ UNCHANGED <<now, ticks, sessions, issued, inflight>>
           ELSE IF IsExpired(sessions[sid], now)
           THEN /\ sessions' = ExpireSession(sessions, sid)
                /\ out' = Answer("auth", sid, 401, "Session expired", FALSE, NoUser)
                /\ UNCHANGED <<now, ticks, issued, inflight>>
           ELSE /\ BagCardinality(inflight) < MaxInflight
                /\ sessions' = MapSet(sessions, sid, Refresh(sessions[sid], now))
                /\ inflight' = inflight (+) SetToBag({Pending("auth", sid, sessions[sid].userId)})
                /\ out' = Answer("auth", sid, 0, "", FALSE, NoUser)
                /\ UNCHANGED <<now, ticks, issued>>

\* authMiddleware from the return of the user lookup.
AuthResume ==
    /\ UNCHANGED outsideAuth
    /\ \E p \in BagToSet(inflight), db \in DbResults :
           /\ p.kind = "auth"
           /\ inflight' = inflight (-) SetToBag({p})
           /\ IF db = "error"
              THEN /\ out' = Answer("authResume", p.sid, 500, "Internal server error",
                                    FALSE, NoUser)
                   /\ UNCHANGED sessions
              ELSE IF db = "missing"
              THEN /\ sessions' = MapDelete(sessions, p.sid)
                   /\ out' = Answer("authResume", p.sid, 401, "User not found", FALSE, NoUser)
              ELSE /\ out' = Answer("authResume", p.sid, 0, "", TRUE, p.userId)
                   /\ UNCHANGED sessions
           /\ UNCHANGED <<now, ticks, issued>>

\* GET /auth/verify up to `await db.select()`.
Verify ==
    /\ UNCHANGED outsideAuth
    /\ \E sid \in Tokens \cup {NoSid} :
           IF sid = NoSid
           THEN /\ out' = Answer("verify", sid, 401, "Authentication required", FALSE, NoUser)
                /\ UNCHANGED <<now, ticks, sessions, issued, inflight>>
           ELSE IF sid \notin DOMAIN sessions
           THEN /\ out' = Answer("verify", sid, 401, "Session expired", FALSE, NoUser)
                /\ UNCHANGED <<now, ticks, sessions, issued, inflight>>
           ELSE IF IsExpired(sessions[sid], now)
           THEN /\ sessions' = ExpireSession(sessions, sid)
                /\ out' = Answer("verify", sid, 401, "Session expired", FALSE, NoUser)
                /\ UNCHANGED <<now, ticks, issued, inflight>>
           ELSE /\ BagCardinality(inflight) < MaxInflight
                /\ sessions' = MapSet(sessions, sid, Refresh(sessions[sid], now))
                /\ inflight' = inflight (+) SetToBag({Pending("verify", sid, sessions[sid].userId)})
                /\ out' = Answer("verify", sid, 0, "", FALSE, NoUser)
                /\ UNCHANGED <<now, ticks, issued>>

\* GET /auth/verify from the return of the user lookup.
VerifyResume ==
    /\ UNCHANGED outsideAuth
    /\ \E p \in BagToSet(inflight), db \in DbResults :
           /\ p.kind = "verify"
           /\ inflight' = inflight (-) SetToBag({p})
           /\ IF db = "error"
              THEN /\ out' = Answer("verifyResume", p.sid, 500, "Internal server error",
                                    FALSE, NoUser)
                   /\ UNCHANGED sessions
              ELSE IF db = "missing"
              THEN /\ sessions' = MapDelete(sessions, p.sid)
                   /\ out' = Answer("verifyResume", p.sid, 401, "User not found", FALSE, NoUser)
              ELSE /\ out' = Answer("verifyResume", p.sid, 200, "", FALSE, p.userId)
                   /\ UNCHANGED sessions
           /\ UNCHANGED <<now, ticks, issued>>

\* POST /auth/logout
Logout ==
    /\ UNCHANGED outsideAuth
    /\ \E sid \in Tokens \cup {NoSid} :
           /\ sessions' = IF sid # NoSid THEN Revoke(sessions, sid) ELSE sessions
           /\ out' = Answer("logout", sid, 200, "", FALSE, NoUser)
           /\ UNCHANGED <<now, ticks, issued, inflight>>

Next ==
    \/ Tick
    \/ Sweep
    \/ Login
    \/ GoogleCallback
    \/ AuthRequest
    \/ AuthResume
    \/ Verify
    \/ VerifyResume
    \/ Logout

Spec == Init /\ [][Next]_vars

(* ----------------------------- rate limiter --------------------------- *)

MAX_REQUESTS == 60

WINDOW_MS == 60 * 1000

BLOCK_DURATION_MS == 5 * 60 * 1000

\* req.ip || req.socket.remoteAddress || 'unknown'
Clients == {"203.0.113.7", "198.51.100.9"}

\* Amounts by which the clock advances between two requests.
RateSteps == {1, WINDOW_MS, BLOCK_DURATION_MS}

\* Math.ceil(n / d) for n >= 0 and d > 0.
Ceil(n, d) == IF n % d = 0 THEN n \div d ELSE (n \div d) + 1

\* The answer of rateLimiter, 429 with retryAfter or next(), with the
\* client it answers and the branches taken on the record read for it:
\* whether it carried a blockedUntil and whether its window had elapsed.
RateAnswer(ip, record, t, status, error, next, retryAfter) ==
    [op |-> "rateLimiter", ip |-> ip,
     hadBlock |-> "blockedUntil" \in DOMAIN record,
     elapsed |-> t - record.firstRequest > WINDOW_MS,
     status |-> status, error |-> error, next |-> next, retryAfter |-> retryAfter]

\* { count: 0, firstRequest: now }
FreshRecord(t) == [count |-> 0, firstRequest |-> t]

\* rateLimitMap.get(clientIp) || { count: 0, firstRequest: now }
RecordOf(map, ip, t) == IF ip \in DOMAIN map THEN map[ip] ELSE FreshRecord(t)

\* Mutant: a client is still blocked at the instant blockedUntil.
IsBlockedThroughBoundary(record, t) ==
    "blockedUntil" \in DOMAIN record /\ t <= record.blockedUntil

\* record.blockedUntil && now < record.blockedUntil
IsBlocked(record, t) ==
    /\ "blockedUntil" \in DOMAIN record
    /\ record.blockedUntil # 0
    /\ t < record.blockedUntil

\* Mutant: the time left is rounded down.
RetryAfterFloor(record, t) == (record.blockedUntil - t) \div 1000

\* Math.ceil((record.blockedUntil - now) / 1000)
RetryAfter(record, t) == Ceil(record.blockedUntil - t, 1000)

\* Mutant: the window is never over.
WindowNeverElapsed(record, t) == t < record.firstRequest

\* Mutant: the window is over at the instant firstRequest + WINDOW_MS.
WindowElapsedAtBoundary(record, t) == t - record.firstRequest >= WINDOW_MS

\* now - record.firstRequest > WINDOW_MS
WindowElapsed(record, t) == t - record.firstRequest > WINDOW_MS

\* Mutant: the request that reaches the ceiling is refused.
OverLimitAtCeiling(record) == record.count >= MAX_REQUESTS

\* record.count > MAX_REQUESTS
OverLimit(record) == record.count > MAX_REQUESTS

\* record.count++
Counted(record) == [record EXCEPT !.count = @ + 1]

\* record.blockedUntil = now + BLOCK_DURATION_MS
Blocked(record, t) ==
    [x \in DOMAIN record \cup {"blockedUntil"} |->
        IF x = "blockedUntil" THEN t + BLOCK_DURATION_MS ELSE record[x]]

\* The clock advances between two requests.
RateTick ==
    /\ UNCHANGED <<authVars, csrfVars, orgVars>>
    /\ \E d \in RateSteps :
           /\ ticks < MaxTicks
           /\ now' = now + d
           /\ ticks' = ticks + 1
           /\ out' = Answer("tick", NoSid, 0, "", FALSE, NoUser)
           /\ UNCHANGED rateLimitMap

\* rateLimiter: the whole middleware is synchronous.
rateLimiter ==
    /\ UNCHANGED <<now, ticks, authVars, csrfVars, orgVars>>
    /\ \E clientIp \in Clients :
           LET record == RecordOf(rateLimitMap, clientIp, now)
               window == IF WindowElapsed(record, now) THEN FreshRecord(now) ELSE record
               counted == Counted(window)
           IN  IF IsBlocked(record, now)
               THEN /\ out' = RateAnswer(clientIp, record, now, 429, "Too many requests",
                                         FALSE, RetryAfter(record, now))
                    /\ UNCHANGED rateLimitMap
               ELSE IF OverLimit(counted)
               THEN /\ rateLimitMap' = MapSet(rateLimitMap, clientIp, Blocked(counted, now))
                    /\ out' = RateAnswer(clientIp, record, now, 429, "Too many requests",
                                         FALSE, Ceil(BLOCK_DURATION_MS, 1000))
               ELSE /\ rateLimitMap' = MapSet(rateLimitMap, clientIp, counted)
                    /\ out' = RateAnswer(clientIp, record, now, 0, "", TRUE, 0)

NextRate ==
    \/ RateTick
    \/ rateLimiter

SpecRate == Init /\ [][NextRate]_vars

(* ------------------------------ CSRF guard ---------------------------- *)

\* Bytes of a CSRF token in the model; crypto.randomBytes(32) in the code.
CsrfTokenBytes == 1

CSRF_COOKIE_NAME == "csrf-token"

CSRF_HEADER_NAME == "x-csrf-token"

\* req.method
RequestMethods == {"GET", "HEAD", "OPTIONS", "POST", "DELETE"}

\* Values of one byte.
Bytes == {10, 255}

\* Buffer.prototype.toString('hex') of one byte.
HexDigit == <<"0", "1", "2", "3", "4", "5", "6", "7",
              "8", "9", "a", "b", "c", "d", "e", "f">>

HexByte(b) == HexDigit[(b \div 16) + 1] \o HexDigit[(b % 16) + 1]

RECURSIVE ToHex(_)
\* Buffer.prototype.toString('hex')
ToHex(bytes) == IF bytes = << >> THEN "" ELSE HexByte(Head(bytes)) \o ToHex(Tail(bytes))

\* crypto.randomBytes(n): any n bytes.
randomBytes(n) == [1 .. n -> Bytes]

\* What setCsrfToken can issue.
CsrfTokens == {ToHex(b) : b \in randomBytes(CsrfTokenBytes)}

\* req.headers[name] and req.cookies[name]: undefined, or a string.
Undefined == [defined |-> FALSE, value |-> ""]

Str(v) == [defined |-> TRUE, value |-> v]

\* What a request can carry as the header and as the cookie.
Carried == {Undefined, Str("")} \cup {Str(t) : t \in CsrfTokens}

\* !x of JavaScript, for undefined and strings.
Falsy(x) == ~x.defined \/ x.value = ""

\* ['GET', 'HEAD', 'OPTIONS'].includes(req.method)
IsSafeMethod(method) == method \in {"GET", "HEAD", "OPTIONS"}

\* Mutant: the two values are only compared.
InvalidTokenComparedOnly(token, cookieToken) == token # cookieToken

\* !token || !cookieToken || token !== cookieToken
InvalidToken(token, cookieToken) ==
    Falsy(token) \/ Falsy(cookieToken) \/ token # cookieToken

\* Mutant: the cookie value is written with the prefix of a signed cookie.
CsrfCookieSigned(token, production) ==
    [value |-> "s:" \o token, httpOnly |-> TRUE, secure |-> production,
     sameSite |-> "strict"]

\* res.cookie(CSRF_COOKIE_NAME, token, { httpOnly: true, secure: ..., sameSite: 'strict' })
CsrfCookie(token, production) ==
    [value |-> token, httpOnly |-> TRUE, secure |-> production, sameSite |-> "strict"]

\* document.cookie as the script of the page reads it: HttpOnly cookies are
\* left out.
ScriptReadable(cookies, name) ==
    IF name \in DOMAIN cookies /\ ~cookies[name].httpOnly
    THEN cookies[name].value
    ELSE ""

\* The cookie header a browser sends for `name`.
CookieSent(cookies, name) ==
    IF name \in DOMAIN cookies THEN Str(cookies[name].value) ELSE Undefined

\* setCsrfToken: a new token goes into the cookie and into the response header.
setCsrfToken ==
    /\ UNCHANGED <<now, ticks, authVars, rateLimitMap, page, orgVars>>
    /\ \E bytes \in randomBytes(CsrfTokenBytes), production \in BOOLEAN :
           LET token == ToHex(bytes)
           IN  /\ jar' = MapSet(jar, CSRF_COOKIE_NAME, CsrfCookie(token, production))
               /\ out' = [op |-> "setCsrfToken", header |-> token, status |-> 0,
                          next |-> TRUE]

\* The script of the page takes the token from the x-csrf-token header of
\* the response it has just received.
ReadHeader ==
    /\ out.op = "setCsrfToken"
    /\ page' = out.header
    /\ out' = [op |-> "readHeader"]
    /\ UNCHANGED <<now, ticks, authVars, rateLimitMap, jar, orgVars>>

\* The script of the page takes the token from document.cookie.
ReadCookie ==
    /\ page' = ScriptReadable(jar, CSRF_COOKIE_NAME)
    /\ out' = [op |-> "readCookie"]
    /\ UNCHANGED <<now, ticks, authVars, rateLimitMap, jar, orgVars>>

\* csrfProtection, on a request from anywhere: method, header and cookie
\* are whatever the sender chose.
csrfProtection ==
    /\ UNCHANGED <<now, ticks, authVars, rateLimitMap, csrfVars, orgVars>>
    /\ \E method \in RequestMethods, token \in Carried, cookieToken \in Carried :
           IF IsSafeMethod(method)
           THEN out' = [op |-> "csrfProtection", method |-> method, header |-> token,
                        cookie |-> cookieToken, status |-> 0, error |-> "",
                        next |-> TRUE]
           ELSE IF InvalidToken(token, cookieToken)
           THEN out' = [op |-> "csrfProtection", method |-> method, header |-> token,
                        cookie |-> cookieToken, status |-> 403,
                        error |-> "Invalid CSRF token", next |-> FALSE]
           ELSE out' = [op |-> "csrfProtection", method |-> method, header |-> token,
                        cookie |-> cookieToken, status |-> 0, error |-> "",
                        next |-> TRUE]

NextCsrf ==
    \/ setCsrfToken
    \/ ReadHeader
    \/ ReadCookie
    \/ csrfProtection

SpecCsrf == Init /\ [][NextCsrf]_vars

(* ----------------------- organization membership ---------------------- *)

\* Handlers suspended between their select and their update at one time.
MaxAwaiting == 2

\* Entries of an activity log.
MaxLog == 4

\* organizations.id values, as randomUUID returns them.
OrgIds == {"o1"}

\* req.body.action
Actions == {"approve", "reject", "promote"}

\* What a query on the organizations table does: it runs, or it throws.
DbOutcomes == {"ok", "error"}

\* Array.prototype.includes
Includes(array, x) == \E i \in 1 .. Len(array) : array[i] = x

\* An entry of activityLog.
LogEntry(employeeId, action) ==
    [timestamp |-> now, employeeId |-> employeeId, action |-> action]

\* The answer of an organization handler, with the request it answers.
OrgAnswer(op, id, userId, employeeId, action, status, message) ==
    [op |-> op, id |-> id, userId |-> userId, employeeId |-> employeeId,
     action |-> action, status |-> status, message |-> message]

\* A handler suspended on its update, with the row its select returned.
Suspended(op, id, userId, employeeId, action, organization) ==
    [op |-> op, id |-> id, userId |-> userId, employeeId |-> employeeId,
     action |-> action, organization |-> organization]

\* The row POST /organizations inserts.
NewOrganization(userId) ==
    [employees |-> <<userId>>,
     employeeRequests |-> << >>,
     adminUsers |-> << >>,
     activityLog |-> <<LogEntry(userId, "Organization created")>>]

\* employeeRequestSchema.safeParse({ action, employeeId }).success, for an
\* employeeId that is a UUID.
ValidAction(action) == action \in {"approve", "reject"}

\* The columns POST /:id/employees/request sets, from the row it selected.
RequestUpdate(row, organization, userId) ==
    [row EXCEPT
        !.employeeRequests = Append(organization.employeeRequests, userId),
        !.activityLog = Append(organization.activityLog,
                               LogEntry(userId, "Employee request submitted"))]

\* organization.employeeRequests.filter(req => req !== employeeId)
newEmployeeRequests(organization, employeeId) ==
    SelectSeq(organization.employeeRequests, LAMBDA r : r # employeeId)

\* action === 'approve' ? [...organization.employees, employeeId] : organization.employees
newEmployees(organization, employeeId, action) ==
    IF action = "approve"
    THEN Append(organization.employees, employeeId)
    ELSE organization.employees

\* The columns POST /:id/employees/:employeeId sets, from the row it selected.
ResolveUpdate(row, organization, userId, employeeId, action) ==
    [row EXCEPT
        !.employees = newEmployees(organization, employeeId, action),
        !.employeeRequests = newEmployeeRequests(organization, employeeId),
        !.activityLog = Append(organization.activityLog,
                               LogEntry(userId, "Employee request " \o action \o "d"))]

\* POST /organizations, for a body that passes the validations: the
\* handler builds the row and inserts it.
CreateOrganization ==
    /\ UNCHANGED <<now, ticks, authVars, rateLimitMap, csrfVars, awaiting>>
    /\ \E userId \in Users \cup {NoUser}, valid \in BOOLEAN, db \in DbOutcomes,
          id \in OrgIds \ DOMAIN organizations :
           IF userId = NoUser
           THEN /\ out' = OrgAnswer("create", id, userId, NoUser, "", 401,
                                    "Authentication required")
                /\ UNCHANGED organizations
           ELSE IF ~valid
           THEN /\ out' = OrgAnswer("create", id, userId, NoUser, "", 400,
                                    "Missing required fields")
                /\ UNCHANGED organizations
           ELSE IF db = "error"
           THEN /\ out' = OrgAnswer("create", id, userId, NoUser, "", 500,
                                    "Failed to create organization")
                /\ UNCHANGED organizations
           ELSE /\ organizations' = MapSet(organizations, id, NewOrganization(userId))
                /\ out' = OrgAnswer("create", id, userId, NoUser, "", 201, "")

\* POST /:id/employees/request up to its update: the select and the checks
\* on the row it returns.
RequestMembership ==
    /\ UNCHANGED <<now, ticks, authVars, rateLimitMap, csrfVars, organizations>>
    /\ \E id \in OrgIds, userId \in Users \cup {NoUser}, db \in DbOutcomes :
           LET answer(status, message) ==
                   OrgAnswer("request", id, userId, userId, "", status, message)
           IN  IF userId = NoUser
               THEN out' = answer(401, "Authentication required") /\ UNCHANGED awaiting
               ELSE IF db = "error"
               THEN out' = answer(500, "Failed to submit employee request")
                    /\ UNCHANGED awaiting
               ELSE IF id \notin DOMAIN organizations
               THEN out' = answer(404, "Organization not found") /\ UNCHANGED awaiting
               ELSE IF Includes(organizations[id].employees, userId)
               THEN out' = answer(400, "Already a member") /\ UNCHANGED awaiting
               ELSE IF Includes(organizations[id].employeeRequests, userId)
               THEN out' = answer(400, "Request already pending") /\ UNCHANGED awaiting
               ELSE /\ BagCardinality(awaiting) < MaxAwaiting
                    /\ Len(organizations[id].activityLog) < MaxLog
                    /\ awaiting' = awaiting (+) SetToBag({Suspended("request", id, userId,
                                       userId, "", organizations[id])})
                    /\ out' = answer(0, "")

\* POST /:id/employees/request from its update on.
RequestMembershipUpdate ==
    /\ UNCHANGED <<now, ticks, authVars, rateLimitMap, csrfVars>>
    /\ \E h \in BagToSet(awaiting), db \in DbOutcomes :
           /\ h.op = "request"
           /\ awaiting' = awaiting (-) SetToBag({h})
           /\ IF db = "error"
              THEN /\ out' = OrgAnswer("requestUpdate", h.id, h.userId, h.userId, "", 500,
                                       "Failed to submit employee request")
                   /\ UNCHANGED organizations
              ELSE /\ organizations' =
                          MapSet(organizations, h.id,
                                 RequestUpdate(organizations[h.id], h.organization, h.userId))
                   /\ out' = OrgAnswer("requestUpdate", h.id, h.userId, h.userId, "", 200,
                                       "Request submitted successfully")

\* The access check of a resolution, letting the pending users in as well.
MayResolveOrPending(organization, userId) ==
    \/ Includes(organization.employees, userId)
    \/ Includes(organization.employeeRequests, userId)

\* The access check of a resolution: organization.employees.includes(userId)
MayResolve(organization, userId) == Includes(organization.employees, userId)

\* POST /:id/employees/:employeeId up to its update: the validation, the
\* select and the checks on the row it returns.
ResolveMembership ==
    /\ UNCHANGED <<now, ticks, authVars, rateLimitMap, csrfVars, organizations>>
    /\ \E id \in OrgIds, userId \in Users \cup {NoUser}, employeeId \in Users,
          action \in Actions, db \in DbOutcomes :
           LET answer(status, message) ==
                   OrgAnswer("resolve", id, userId, employeeId, action, status, message)
           IN  IF ~ValidAction(action)
               THEN out' = answer(400, "Invalid request data") /\ UNCHANGED awaiting
               ELSE IF userId = NoUser
               THEN out' = answer(401, "Authentication required") /\ UNCHANGED awaiting
               ELSE IF db = "error"
               THEN out' = answer(500, "Failed to handle employee request")
                    /\ UNCHANGED awaiting
               ELSE IF id \notin DOMAIN organizations
               THEN out' = answer(404, "Organization not found") /\ UNCHANGED awaiting
               ELSE IF ~MayResolve(organizations[id], userId)
               THEN out' = answer(403, "Access denied") /\ UNCHANGED awaiting
               ELSE IF ~Includes(organizations[id].employeeRequests, employeeId)
               THEN out' = answer(404, "Employee request not found") /\ UNCHANGED awaiting
               ELSE /\ BagCardinality(awaiting) < MaxAwaiting
                    /\ Len(organizations[id].activityLog) < MaxLog
                    /\ awaiting' = awaiting (+) SetToBag({Suspended("resolve", id, userId,
                                       employeeId, action, organizations[id])})
                    /\ out' = answer(0, "")

\* POST /:id/employees/:employeeId from its update on.
ResolveMembershipUpdate ==
    /\ UNCHANGED <<now, ticks, authVars, rateLimitMap, csrfVars>>
    /\ \E h \in BagToSet(awaiting), db \in DbOutcomes :
           /\ h.op = "resolve"
           /\ awaiting' = awaiting (-) SetToBag({h})
           /\ IF db = "error"
              THEN /\ out' = OrgAnswer("resolveUpdate", h.id, h.userId, h.employeeId,
                                       h.action, 500, "Failed to handle employee request")
                   /\ UNCHANGED organizations
              ELSE /\ organizations' =
                          MapSet(organizations, h.id,
                                 ResolveUpdate(organizations[h.id], h.organization,
                                               h.userId, h.employeeId, h.action))
                   /\ out' = OrgAnswer("resolveUpdate", h.id, h.userId, h.employeeId,
                                       h.action, 200,
                                       "Employee request " \o h.action \o "d successfully")

NextOrg ==
    \/ CreateOrganization
    \/ RequestMembership
    \/ RequestMembershipUpdate
    \/ ResolveMembership
    \/ ResolveMembershipUpdate

SpecOrg == Init /\ [][NextOrg]_vars

(* ------------------------- transaction approval ----------------------- *)

\* transactionRules.default
DefaultCeiling == 10000

\* transactionRules.emergency
EmergencyCeiling == 25000

\* transactionRules.recurring
RecurringCeiling == 15000

\* z.string().max(500)
MaxDescription == 500

\* transactionCategoryEnum
Categories == {"default", "emergency", "recurring"}

\* req.body.category when the body has none.
Unspecified == ""

\* const { category = 'default' } = req.body
CategoryOf(category) == IF category = Unspecified THEN "default" ELSE category

\* Mutant: the ceiling of the category decides alone for emergency and
\* recurring transactions, and every other category has no ceiling.
approvalReasonNoDefault(cost, category, isAdmin) ==
    IF isAdmin THEN "Admin approval"
    ELSE IF category = "emergency" /\ cost <= EmergencyCeiling
    THEN "Emergency transaction within limit"
    ELSE IF category = "recurring" /\ cost <= RecurringCeiling
    THEN "Recurring transaction within limit"
    ELSE IF category = "default"
    THEN "Standard transaction within limit"
    ELSE "Transaction exceeds approval limit"

\* approvalReason, as the chain of tests sets it.
approvalReason(cost, category, isAdmin) ==
    IF isAdmin THEN "Admin approval"
    ELSE IF category = "emergency" /\ cost <= EmergencyCeiling
    THEN "Emergency transaction within limit"
    ELSE IF category = "recurring" /\ cost <= RecurringCeiling
    THEN "Recurring transaction within limit"
    ELSE IF cost <= DefaultCeiling
    THEN "Standard transaction within limit"
    ELSE "Transaction exceeds approval limit"

\* approved, set together with approvalReason.
approved(cost, category, isAdmin) ==
    approvalReason(cost, category, isAdmin) # "Transaction exceeds approval limit"

\* Costs a request asks approval for, around the three ceilings.
Costs == {1, 5000, 9999, 10000, 10001, 14999, 15000, 15001, 20000,
          24999, 25000, 25001, 1000000}

\* The decision on one transaction, computed as verify-transaction does.
Decide ==
    /\ \E cost \in Costs, category \in Categories \cup {Unspecified}, isAdmin \in BOOLEAN :
           out' = [op |-> "decide", cost |-> cost, category |-> category,
                   isAdmin |-> isAdmin,
                   approved |-> approved(cost, CategoryOf(category), isAdmin),
                   reason |-> approvalReason(cost, CategoryOf(category), isAdmin)]
    /\ UNCHANGED <<now, ticks, authVars, rateLimitMap, csrfVars, orgVars>>

NextApproval == Decide

SpecApproval == Init /\ [][NextApproval]_vars

(* -------------------------- verify-transaction ------------------------ *)

\* req.body.cost of the requests on an organization: not positive, and above
\* the default ceiling (approved as an emergency, rejected otherwise).
TransactionCosts == {0, DefaultCeiling + 1}

\* req.body.category of the requests on an organization.
TransactionCategories == {Unspecified, "emergency", "bogus"}

\* A description of n characters.
Filler(n) == [i \in 1 .. n |-> "x"]

\* req.body.description, as sequences of characters: empty, one with a
\* character sanitizeInput removes, one over the longest allowed.
Descriptions == {<< >>, <<"a", "&", "b">>, Filler(MaxDescription + 1)}

\* sanitizeInput(input), context 'text': input.replace(/[<>"'&;]/g, '')
sanitizeInput(input) ==
    SelectSeq(input, LAMBDA c : c \notin {"<", ">", "\"", "'", "&", ";"})

\* verifyTransactionSchema.safeParse(transactionData).success, for an
\* organizationId that is a UUID and a cost that is a finite number.
ValidTransaction(cost, description, category) ==
    /\ cost > 0
    /\ Len(description) >= 1
    /\ Len(description) <= MaxDescription
    /\ category \in Categories

\* Array.isArray(organization.adminUsers) && organization.adminUsers.includes(userId)
IsAdmin(organization, userId) == Includes(organization.adminUsers, userId)

\* The activityLog entry of a decision.
TransactionEntry(organization, userId, cost, description, category) ==
    [timestamp |-> now,
     employeeId |-> userId,
     action |-> "Business transaction "
                \o (IF approved(cost, category, IsAdmin(organization, userId))
                    THEN "approved" ELSE "rejected"),
     cost |-> cost,
     details |-> [category |-> category,
                  description |-> sanitizeInput(description),
                  approvalReason |->
                      approvalReason(cost, category, IsAdmin(organization, userId)),
                  isAdminAction |-> IsAdmin(organization, userId)]]

\* The column POST /verify-transaction sets, from the row it selected.
TransactionUpdate(row, organization, entry) ==
    [row EXCEPT !.activityLog = Append(organization.activityLog, entry)]

\* POST /verify-transaction up to its update: the validation, the select,
\* the checks on the row it returns and the decision.
VerifyTransaction ==
    /\ UNCHANGED <<now, ticks, authVars, rateLimitMap, csrfVars, organizations>>
    /\ \E id \in OrgIds, userId \in Users \cup {NoUser}, cost \in TransactionCosts,
          description \in Descriptions, body \in TransactionCategories,
          db \in DbOutcomes :
           LET category == CategoryOf(body)
               answer(status, message) ==
                   [op |-> "verifyTransaction", id |-> id, userId |-> userId,
                    cost |-> cost, category |-> category, status |-> status,
                    message |-> message]
           IN  IF userId = NoUser
               THEN out' = answer(401, "Authentication required") /\ UNCHANGED awaiting
               ELSE IF ~ValidTransaction(cost, description, category)
               THEN out' = answer(400, "Invalid transaction data") /\ UNCHANGED awaiting
               ELSE IF db = "error"
               THEN out' = answer(500, "Failed to verify transaction") /\ UNCHANGED awaiting
               ELSE IF id \notin DOMAIN organizations
               THEN out' = answer(404, "Organization not found") /\ UNCHANGED awaiting
               ELSE IF ~Includes(organizations[id].employees, userId)
               THEN out' = answer(403, "Access denied") /\ UNCHANGED awaiting
               ELSE /\ BagCardinality(awaiting) < MaxAwaiting
                    /\ Len(organizations[id].activityLog) < MaxLog
                    /\ awaiting' = awaiting (+) SetToBag({
                           [op |-> "verifyTransaction", id |-> id, userId |-> userId,
                            organization |-> organizations[id],
                            entry |-> TransactionEntry(organizations[id], userId, cost,
                                                       description, category)]})
                    /\ out' = answer(0, "")

\* POST /verify-transaction from its update on.
VerifyTransactionUpdate ==
    /\ UNCHANGED <<now, ticks, authVars, rateLimitMap, csrfVars>>
    /\ \E h \in BagToSet(awaiting), db \in DbOutcomes :
           /\ h.op = "verifyTransaction"
           /\ awaiting' = awaiting (-) SetToBag({h})
           /\ IF db = "error"
              THEN /\ out' = [op |-> "verifyTransactionUpdate", id |-> h.id,
                              userId |-> h.userId, cost |-> h.entry.cost,
                              category |-> h.entry.details.category, status |-> 500,
                              message |-> "Failed to verify transaction"]
                   /\ UNCHANGED organizations
              ELSE /\ organizations' =
                          MapSet(organizations, h.id,
                                 TransactionUpdate(organizations[h.id], h.organization,
                                                   h.entry))
                   /\ out' = [op |-> "verifyTransactionUpdate", id |-> h.id,
                              userId |-> h.userId, cost |-> h.entry.cost,
                              category |-> h.entry.details.category, status |-> 200,
                              message |-> h.entry.details.approvalReason]

\* The creation of an organization and the transactions of its employees.
NextTransaction ==
    \/ CreateOrganization
    \/ VerifyTransaction
    \/ VerifyTransactionUpdate

SpecTransaction == Init /\ [][NextTransaction]_vars

(* --------------------------- routing numbers -------------------------- *)

\* The characters '0' .. '9', each at the place of its value plus one.
DigitChars == <<"0", "1", "2", "3", "4", "5", "6", "7", "8", "9">>

\* /[0-9]/ on one character.
IsDigit(c) == \E i \in 1 .. Len(DigitChars) : DigitChars[i] = c

\* Number(c) of a digit character.
Number(c) == (CHOOSE i \in 1 .. Len(DigitChars) : DigitChars[i] = c) - 1

\* routingNumber.replace(/[^0-9]/g, ''), on a string as the sequence of its
\* characters.
Cleaned(routingNumber) == SelectSeq(routingNumber, IsDigit)

\* The test routing numbers the function refuses by name.
TestNumbers == {<<"1", "1", "1", "1", "1", "1", "1", "1", "1">>,
                <<"1", "2", "3", "4", "5", "6", "7", "8", "9">>}

\* The sum of the ABA checksum with the weights 7, 3, 1.
ChecksumSwapped(digits) ==
    7 * (digits[1] + digits[4] + digits[7])
    + 3 * (digits[2] + digits[5] + digits[8])
    + 1 * (digits[3] + digits[6] + digits[9])

\* The sum of the ABA checksum: weights 3, 7, 1 over the nine digits.
Checksum(digits) ==
    3 * (digits[1] + digits[4] + digits[7])
    + 7 * (digits[2] + digits[5] + digits[8])
    + 1 * (digits[3] + digits[6] + digits[9])

\* validateRoutingNumber(routingNumber)
validateRoutingNumber(routingNumber) ==
    LET cleaned == Cleaned(routingNumber)
    IN  IF Len(cleaned) # 9
        THEN FALSE
        ELSE IF \/ (cleaned[1] = "0" /\ cleaned[2] = "0")
                \/ cleaned \in TestNumbers
        THEN FALSE
        ELSE LET digits == [i \in 1 .. 9 |-> Number(cleaned[i])]
                 frDigits == 10 * digits[1] + digits[2]
             IN  IF frDigits < 1 \/ frDigits > 12
                 THEN FALSE
                 ELSE Checksum(digits) % 10 = 0

\* The string as the sequence of its characters, for nine-character strings
\* of digits written as a number sequence.
Chars(ds) == [i \in 1 .. Len(ds) |-> DigitChars[ds[i] + 1]]

\* Routing numbers as a client types them: a real one, the test numbers,
\* ones outside the Federal Reserve range with a checksum that is right,
\* ones inside it with a checksum that is wrong.
TypedNumbers ==
    {Chars(<<0, 2, 1, 0, 0, 0, 0, 2, 1>>), Chars(<<0, 1, 1, 0, 0, 0, 0, 1, 5>>),
     Chars(<<1, 2, 1, 0, 0, 0, 2, 4, 8>>), Chars(<<1, 1, 1, 1, 1, 1, 1, 1, 1>>),
     Chars(<<1, 2, 3, 4, 5, 6, 7, 8, 9>>), Chars(<<0, 0, 0, 0, 0, 0, 0, 0, 0>>),
     Chars(<<1, 3, 0, 0, 0, 0, 0, 0, 6>>), Chars(<<9, 9, 0, 0, 0, 0, 0, 0, 0>>)}

\* What a client may put at one place of a typed number: another digit, a
\* separator, a letter.
TypedChars == {"0", "1", "3", "7", "-", " ", "a"}

\* The typed number with the character at place i replaced.
Replaced(typed, i, c) == [typed EXCEPT ![i] = c]

\* The typed number with a character put in after place i.
Inserted(typed, i, c) ==
    SubSeq(typed, 1, i) \o <<c>> \o SubSeq(typed, i + 1, Len(typed))

\* The typed number without its place i.
Deleted(typed, i) == SubSeq(typed, 1, i - 1) \o SubSeq(typed, i + 1, Len(typed))

\* The routing numbers that reach the function.
RoutingNumbers ==
    TypedNumbers
    \cup {Replaced(t, i, c) : t \in TypedNumbers, i \in 1 .. 9, c \in TypedChars}
    \cup {Inserted(t, i, c) : t \in TypedNumbers, i \in {0, 4, 9}, c \in TypedChars}
    \cup {Deleted(t, i) : t \in TypedNumbers, i \in {1, 9}}

\* One call of validateRoutingNumber.
ValidateRouting ==
    /\ \E routingNumber \in RoutingNumbers :
           out' = [op |-> "validateRoutingNumber",
                   routingNumber |-> routingNumber,
                   valid |-> validateRoutingNumber(routingNumber)]
    /\ UNCHANGED <<now, ticks, authVars, rateLimitMap, csrfVars, orgVars>>

NextRouting == ValidateRouting

SpecRouting == Init /\ [][NextRouting]_vars

(* --------------------------- request pipeline ------------------------- *)

\* NODE_ENV
NodeEnvs == {"production", "development"}

\* req.method of the requests sent to the application.
PipelineMethods == {"GET", "POST", "DELETE", "OPTIONS"}

\* req.path of the requests sent to the application, as the sequence of its
\* segments.
PipelinePaths ==
    {<< >>, <<"api", "register">>, <<"api", "organizations">>,
     <<"api", "organizations", "verify-transaction">>,
     <<"auth", "login">>, <<"auth", "verify">>, <<"auth", "google", "callback">>,
     <<"auth", "logout">>}

\* The layers of the application in the order bootstrapApp mounts them,
\* Express's own final handler last.
Stack ==
    <<"cors", "express.json", "express.urlencoded", "cookieParser", "logging",
      "POST /api/register", "authRouter", "fallback", "finalhandler">>

\* The route handlers of the application.
RouteHandlers == {"register", "login", "verify", "googleCallback", "logout"}

NoHandler == ""

\* The path is under the mount point: its first segment is the mount's.
Under(path, mount) == Len(path) >= 1 /\ path[1] = mount

\* The routes of the auth router, for a path under /auth.
AuthRoute(method, path) ==
    IF method = "POST" /\ path = <<"auth", "login">> THEN "login"
    ELSE IF method = "GET" /\ path = <<"auth", "verify">> THEN "verify"
    ELSE IF method = "GET" /\ path = <<"auth", "google", "callback">> THEN "googleCallback"
    ELSE IF method = "POST" /\ path = <<"auth", "logout">> THEN "logout"
    ELSE NoHandler

\* What a layer does with a request: the route handler it runs, the status
\* it ends the response with, or neither (it calls next()).
Through(layer, env, method, path) ==
    IF layer = "cors"
    THEN [handler |-> NoHandler, status |-> IF method = "OPTIONS" THEN 204 ELSE 0]
    ELSE IF layer = "POST /api/register"
    THEN [handler |-> IF method = "POST" /\ path = <<"api", "register">>
                      THEN "register" ELSE NoHandler,
          status |-> 0]
    ELSE IF layer = "authRouter"
    THEN [handler |-> IF Under(path, "auth") THEN AuthRoute(method, path) ELSE NoHandler,
          status |-> 0]
    ELSE IF layer = "fallback"
    THEN [handler |-> NoHandler,
          status |-> IF method # "GET" THEN 0
                     ELSE IF Under(path, "api") \/ Under(path, "auth")
                     THEN (IF env = "production" THEN 404 ELSE 0)
                     ELSE 200]
    ELSE IF layer = "finalhandler"
    THEN [handler |-> NoHandler, status |-> 404]
    ELSE [handler |-> NoHandler, status |-> 0]

\* A request arrives at the application.
Receive ==
    /\ \E env \in NodeEnvs, method \in PipelineMethods, path \in PipelinePaths :
           out' = [op |-> "pipeline", env |-> env, method |-> method, path |-> path,
                   passed |-> << >>, handler |-> NoHandler, status |-> 0]
    /\ UNCHANGED <<now, ticks, authVars, rateLimitMap, csrfVars, orgVars>>

\* The request goes into the next layer of the stack.
Dispatch ==
    /\ out.op = "pipeline"
    /\ out.handler = NoHandler
    /\ out.status = 0
    /\ Len(out.passed) < Len(Stack)
    /\ LET layer == Stack[Len(out.passed) + 1]
           done == Through(layer, out.env, out.method, out.path)
       IN  out' = [out EXCEPT !.passed = Append(@, layer),
                              !.handler = done.handler,
                              !.status = done.status]
    /\ UNCHANGED <<now, ticks, authVars, rateLimitMap, csrfVars, orgVars>>

NextPipeline ==
    \/ Receive
    \/ Dispatch

SpecPipeline == Init /\ [][NextPipeline]_vars

(* ------------------------------ properties ---------------------------- *)

\* The step just taken ran the session check of authMiddleware or of
\* GET /auth/verify on session id s.
Validated(s) == out'.op \in {"auth", "verify"} /\ out'.sid = s

\* Every record of the store other than s is the same before and after the step.
OthersUnchanged(s) ==
    /\ DOMAIN sessions' \ {s} = DOMAIN sessions \ {s}
    /\ \A o \in DOMAIN sessions \ {s} : sessions'[o] = sessions[o]

\* C1: a request presenting a session id whose record exists and is not
\* expired passes validation (it goes on to the user lookup), and the step
\* sets that record's expiresAt to now + SESSION_DURATION and its
\* lastActivity to now, keeps its userId and changes no other record.
C1_SlidingExpiration ==
    [][\A s \in Tokens :
        (Validated(s) /\ s \in DOMAIN sessions /\ sessions[s].expiresAt >= now)
        => /\ out'.status = 0
           /\ BagIn(Pending(out'.op, s, sessions[s].userId), inflight')
           /\ s \in DOMAIN sessions'
           /\ sessions'[s] = [userId |-> sessions[s].userId,
                              expiresAt |-> now + SESSION_DURATION,
                              lastActivity |-> now]
           /\ OthersUnchanged(s)]_vars

\* C1 witness: a validation has refreshed a session at a later time than
\* another session, still in the store, was last active.
C1_Witness ==
    /\ out.op \in {"auth", "verify"}
    /\ out.status = 0
    /\ out.sid \in DOMAIN sessions
    /\ sessions[out.sid].lastActivity = now
    /\ sessions[out.sid].expiresAt = now + SESSION_DURATION
    /\ now > 0
    /\ \E o \in DOMAIN sessions \ {out.sid} : sessions[o].lastActivity < now

\* C2 as stated: a request presenting a session with now >= expiresAt, the
\* instant now = expiresAt included, is rejected and the session is not
\* refreshed.
C2_Original ==
    [][\A s \in Tokens :
        (Validated(s) /\ s \in DOMAIN sessions /\ now >= sessions[s].expiresAt)
        => /\ out'.status = 401
           /\ (s \in DOMAIN sessions' => sessions'[s] = sessions[s])]_vars

\* C2 amended: a request presenting a session with now > expiresAt is
\* rejected with "Session expired" and the session is not refreshed (its
\* record is gone); at the instant now = expiresAt the request passes
\* validation and the session is refreshed.
C2_ExpiredStrictlyAfter ==
    [][\A s \in Tokens :
        (Validated(s) /\ s \in DOMAIN sessions)
        => /\ (now > sessions[s].expiresAt
                => /\ out'.status = 401
                   /\ out'.error = "Session expired"
                   /\ s \notin DOMAIN sessions')
           /\ (now = sessions[s].expiresAt
                => /\ out'.status = 0
                   /\ s \in DOMAIN sessions'
                   /\ sessions'[s].expiresAt = now + SESSION_DURATION
                   /\ sessions'[s].lastActivity = now)]_vars

\* C2 witness: the middleware has just rejected a session it found expired.
C2_Witness ==
    /\ out.op = "auth"
    /\ out.status = 401
    /\ out.error = "Session expired"
    /\ out.sid \in Tokens
    /\ out.sid \notin DOMAIN sessions
    /\ now > SESSION_DURATION

\* C3: a request with an unknown session id is rejected and the store is
\* unchanged; a request whose session is found expired is rejected, that
\* record is removed (the id is unknown to a later request) and every other
\* record is unchanged.
C3_FailedValidation ==
    [][\A s \in Tokens :
        Validated(s)
        => /\ (s \notin DOMAIN sessions
                => out'.status = 401 /\ sessions' = sessions)
           /\ ((s \in DOMAIN sessions /\ out'.status = 401)
                => /\ sessions[s].expiresAt < now
                   /\ s \notin DOMAIN sessions'
                   /\ OthersUnchanged(s))
           /\ ((s \in DOMAIN sessions /\ sessions[s].expiresAt < now)
                => out'.status = 401 /\ s \notin DOMAIN sessions')]_vars

\* C3 witness: the middleware has just removed an expired session while
\* another record stays in the store.
C3_Witness ==
    /\ out.op = "auth"
    /\ out.error = "Session expired"
    /\ out.sid \notin DOMAIN sessions
    /\ DOMAIN sessions # {}

C5_SweepExact ==
    [][out'.op = "sweep"
        => /\ DOMAIN sessions' \subseteq DOMAIN sessions
           /\ \A s \in DOMAIN sessions :
                /\ s \notin DOMAIN sessions'
                     <=> \/ sessions[s].expiresAt < now
                         \/ sessions[s].lastActivity + INACTIVE_TIMEOUT < now
                /\ s \in DOMAIN sessions' => sessions'[s] = sessions[s]
           /\ out'.cleaned = Cardinality(DOMAIN sessions \ DOMAIN sessions')]_vars

\* C5 witness: a sweep has removed a record at a time when no record can
\* have expired (so for inactivity alone), and has kept another.
C5_Witness ==
    /\ out.op = "sweep"
    /\ out.cleaned >= 1
    /\ now <= SESSION_DURATION
    /\ DOMAIN sessions # {}

\* C6 as stated: once an unexpired session's lastActivity is more than
\* INACTIVE_TIMEOUT in the past, a request presenting it is rejected and
\* does not refresh it, whether or not a sweep has run.
C6_Original ==
    [][\A s \in Tokens :
        (/\ Validated(s)
         /\ s \in DOMAIN sessions
         /\ sessions[s].lastActivity + INACTIVE_TIMEOUT < now
         /\ now < sessions[s].expiresAt)
        => /\ out'.status = 401
           /\ (s \in DOMAIN sessions' => sessions'[s] = sessions[s])]_vars

\* C6 amended: a session whose lastActivity is more than INACTIVE_TIMEOUT in
\* the past is removed by the next sweep, so no record that idle is in the
\* store right after a sweep and a later request presenting its id is
\* rejected; as long as no sweep has run, a request presenting it is
\* rejected only if the session has also expired (expiresAt < now), and
\* otherwise passes validation and refreshes it.
C6_IdleUntilSweep ==
    [][/\ out'.op = "sweep"
            => \A s \in DOMAIN sessions' :
                   sessions'[s].lastActivity + INACTIVE_TIMEOUT >= now
       /\ \A s \in Tokens :
            (/\ Validated(s)
             /\ s \in DOMAIN sessions
             /\ sessions[s].lastActivity + INACTIVE_TIMEOUT < now)
            => IF sessions[s].expiresAt < now
               THEN out'.status = 401 /\ s \notin DOMAIN sessions'
               ELSE /\ out'.status = 0
                    /\ sessions'[s].lastActivity = now
                    /\ sessions'[s].expiresAt = now + SESSION_DURATION]_vars

\* C6 witness: at time INACTIVE_TIMEOUT + 1, when every session created at
\* time 0 and not used since is idle beyond the timeout and unexpired, the
\* middleware has validated and refreshed a session.
C6_Witness ==
    /\ out.op = "auth"
    /\ out.status = 0
    /\ now = INACTIVE_TIMEOUT + 1
    /\ out.sid \in DOMAIN sessions
    /\ sessions[out.sid].lastActivity = now

\* The step just taken removed session s for a reason other than staleness:
\* a logout presenting s, or a handler resuming to find its user missing.
RevokedOrUserMissing(s) ==
    \/ out'.op = "logout" /\ out'.sid = s
    \/ /\ out'.op \in {"authResume", "verifyResume"}
       /\ out'.sid = s
       /\ out'.error = "User not found"

\* C7: while no more than INACTIVE_TIMEOUT has passed since a session's last
\* validated use (or its creation), no sweep removes it and no request
\* presenting it is rejected: it leaves the store only by a logout or because
\* its user is missing, and a validation of it passes and refreshes it.
C7_ActiveNeverLoggedOut ==
    [][\A s \in DOMAIN sessions :
        (now <= sessions[s].lastActivity + INACTIVE_TIMEOUT)
        => /\ s \notin DOMAIN sessions' => RevokedOrUserMissing(s)
           /\ out'.op = "sweep" => (s \in DOMAIN sessions' /\ sessions'[s] = sessions[s])
           /\ Validated(s) => (out'.status = 0 /\ sessions'[s].lastActivity = now)]_vars

\* C7 witness: a sweep has run exactly INACTIVE_TIMEOUT after the last
\* activity of a session, itself INACTIVE_TIMEOUT after time 0, and the
\* session is still in the store.
C7_Witness ==
    /\ out.op = "sweep"
    /\ now = 2 * INACTIVE_TIMEOUT
    /\ \E s \in DOMAIN sessions : sessions[s].lastActivity = INACTIVE_TIMEOUT

\* C8: a successful validation never decreases the session's expiresAt or
\* lastActivity, and leaves the session such that a validation following
\* immediately succeeds (it is in the store with expiresAt >= now).
C8_MonotoneExtension ==
    [][\A s \in Tokens :
        (Validated(s) /\ out'.status = 0)
        => /\ s \in DOMAIN sessions
           /\ s \in DOMAIN sessions'
           /\ sessions'[s].expiresAt >= sessions[s].expiresAt
           /\ sessions'[s].lastActivity >= sessions[s].lastActivity
           /\ ~(sessions'[s].expiresAt < now')]_vars

\* C8 witness: one millisecond after time 0, GET /auth/verify has validated
\* a session and left it with lastActivity = now and expiresAt = now +
\* SESSION_DURATION, so that a validation following immediately succeeds.
C8_Witness ==
    /\ out.op = "verify"
    /\ out.status = 0
    /\ now = 1
    /\ out.sid \in DOMAIN sessions
    /\ sessions[out.sid].lastActivity = now
    /\ sessions[out.sid].expiresAt = now + SESSION_DURATION

\* C9: a logout answers 200 whatever id it presents; afterwards that id is
\* not in the store, every other record is unchanged, and when the id was
\* absent (or none was presented) the store is unchanged.
C9_RevokeIdempotent ==
    [][out'.op = "logout"
        => /\ out'.status = 200
           /\ out'.sid \notin DOMAIN sessions'
           /\ OthersUnchanged(out'.sid)
           /\ out'.sid \notin DOMAIN sessions => sessions' = sessions]_vars

\* C9 witness: at time 0 a logout presenting the first session's id has
\* run; that id is gone and the second session, of user u1, is in the store.
C9_Witness ==
    /\ out.op = "logout"
    /\ out.sid = "t1"
    /\ out.sid \notin DOMAIN sessions
    /\ "t2" \in DOMAIN sessions
    /\ sessions["t2"].userId = "u1"
    /\ ticks = 0

C11_SessionOnlyWhenAuthenticated ==
    [][out'.op = "login"
        => /\ (out'.status # 200 => sessions' = sessions)
           /\ ((out'.account = "existing" /\ out'.password # "owner")
                => /\ sessions' = sessions
                   /\ out'.sid = NoSid
                   /\ out'.status # 200)]_vars

\* C11 witness: a login for an existing account that carried a password
\* other than the owner's has been answered 200 with a session id, and the
\* store holds a session of that user under that id.
C11_Witness ==
    /\ out.op = "login"
    /\ out.account = "existing"
    /\ out.password = "other"
    /\ out.status = 200
    /\ out.sid \in DOMAIN sessions
    /\ sessions[out.sid].userId = out.user


\* The step just taken ran rateLimiter for client ip.
Limited(ip) == out'.op = "rateLimiter" /\ out'.ip = ip

\* The record rateLimiter reads for client ip in the current state.
Current(ip) == RecordOf(rateLimitMap, ip, now)

\* Client ip is inside a block in the current state.
InBlock(ip) ==
    /\ ip \in DOMAIN rateLimitMap
    /\ "blockedUntil" \in DOMAIN rateLimitMap[ip]
    /\ now < rateLimitMap[ip].blockedUntil

\* The window of client ip is still open in the current state.
InWindow(ip) == now - Current(ip).firstRequest <= WINDOW_MS

\* The step answered next() and no status.
Allowed == out'.next /\ out'.status = 0

\* The step answered 429 and did not call next().
Rejected == ~out'.next /\ out'.status = 429 /\ out'.error = "Too many requests"

\* C12: with MAX_REQUESTS = 60 and WINDOW_MS = 60000, a request of a client
\* that is not blocked and whose window is open is allowed while it is one
\* of the first 60 of the window (the count before it is below 60), and the
\* 61st (the count before it is 60) is rejected with 429 and leaves the
\* record with count 61 and blockedUntil = now + BLOCK_DURATION_MS.
C12_SixtyPerWindow ==
    [][\A ip \in Clients :
        (Limited(ip) /\ ~InBlock(ip) /\ InWindow(ip))
        => /\ MAX_REQUESTS = 60 /\ WINDOW_MS = 60000
           /\ Current(ip).count <= MAX_REQUESTS
           /\ (Current(ip).count < MAX_REQUESTS
                => /\ Allowed
                   /\ rateLimitMap'[ip].count = Current(ip).count + 1
                   /\ "blockedUntil" \notin DOMAIN rateLimitMap'[ip])
           /\ (Current(ip).count = MAX_REQUESTS
                => /\ Rejected
                   /\ rateLimitMap'[ip].count = MAX_REQUESTS + 1
                   /\ rateLimitMap'[ip].blockedUntil = now + BLOCK_DURATION_MS)]_vars

\* C12 witness: the 61st request of a window, made at the last instant of
\* the window, has been rejected and the client is blocked for
\* BLOCK_DURATION_MS from now.
C12_Witness ==
    /\ out.op = "rateLimiter"
    /\ out.status = 429
    /\ ~out.hadBlock
    /\ now - rateLimitMap[out.ip].firstRequest = WINDOW_MS
    /\ rateLimitMap[out.ip].count = MAX_REQUESTS + 1
    /\ rateLimitMap[out.ip].blockedUntil = now + BLOCK_DURATION_MS


\* C13: after a block, a request of the client made at or after
\* blockedUntil is allowed, and leaves its record with count 1, window
\* start now and no blockedUntil.
C13_UnblockedStartsAfresh ==
    [][\A ip \in Clients :
        (/\ Limited(ip)
         /\ ip \in DOMAIN rateLimitMap
         /\ "blockedUntil" \in DOMAIN rateLimitMap[ip]
         /\ now >= rateLimitMap[ip].blockedUntil)
        => /\ Allowed
           /\ rateLimitMap'[ip] = [count |-> 1, firstRequest |-> now]]_vars

\* C13 witness: a request that found a record with a blockedUntil, made
\* BLOCK_DURATION_MS after the server started (so at that blockedUntil
\* itself), has been allowed, and the record now counts 1 request in a
\* window starting now, with no block.
C13_Witness ==
    /\ out.op = "rateLimiter"
    /\ out.next
    /\ out.hadBlock
    /\ now = BLOCK_DURATION_MS
    /\ rateLimitMap[out.ip] = [count |-> 1, firstRequest |-> now]

\* C14: while a client is blocked (now < blockedUntil) its request is
\* rejected with 429 and retryAfter = ceil((blockedUntil - now) / 1000),
\* and rateLimitMap is unchanged.
C14_BlockedRejected ==
    [][\A ip \in Clients :
        (Limited(ip) /\ InBlock(ip))
        => /\ Rejected
           /\ out'.retryAfter * 1000 >= rateLimitMap[ip].blockedUntil - now
           /\ (out'.retryAfter - 1) * 1000 < rateLimitMap[ip].blockedUntil - now
           /\ rateLimitMap' = rateLimitMap]_vars

\* C14 witness: a blocked client has been rejected with a time left that is
\* no whole number of seconds, rounded up in retryAfter.
C14_Witness ==
    /\ out.op = "rateLimiter"
    /\ out.status = 429
    /\ out.hadBlock
    /\ now < rateLimitMap[out.ip].blockedUntil
    /\ (rateLimitMap[out.ip].blockedUntil - now) % 1000 # 0
    /\ out.retryAfter = ((rateLimitMap[out.ip].blockedUntil - now) \div 1000) + 1

\* C15: a request of a client that is not blocked and whose window has
\* elapsed (now - firstRequest > WINDOW_MS) is allowed and leaves the record
\* with count 1 and window start now; with now - firstRequest <= WINDOW_MS
\* the request is counted in the existing window: the count goes up by one
\* and the window start stays.
C15_WindowReset ==
    [][\A ip \in Clients :
        (Limited(ip) /\ ip \in DOMAIN rateLimitMap /\ ~InBlock(ip))
        => /\ (now - rateLimitMap[ip].firstRequest > WINDOW_MS
                => /\ Allowed
                   /\ rateLimitMap'[ip] = [count |-> 1, firstRequest |-> now])
           /\ (now - rateLimitMap[ip].firstRequest <= WINDOW_MS
                => /\ rateLimitMap'[ip].count = rateLimitMap[ip].count + 1
                   /\ rateLimitMap'[ip].firstRequest = rateLimitMap[ip].firstRequest)]_vars

\* C15 witness: a request has found a record that was never blocked and
\* whose window had elapsed, and the record now counts 1 request in a
\* window starting now.
C15_Witness ==
    /\ out.op = "rateLimiter"
    /\ out.next
    /\ ~out.hadBlock
    /\ out.elapsed
    /\ rateLimitMap[out.ip] = [count |-> 1, firstRequest |-> now]


\* A header or cookie is present: it is defined and not the empty string.
Present(x) == x.defined /\ x.value # ""

\* C16: a request with a method outside {GET, HEAD, OPTIONS} is passed on if
\* and only if the x-csrf-token header and the csrf-token cookie are both
\* present and equal, and is otherwise answered 403 and not passed on; a
\* request with a safe method is passed on whatever it carries.
C16_DoubleSubmit ==
    [][out'.op = "csrfProtection"
        => IF out'.method \in {"GET", "HEAD", "OPTIONS"}
           THEN out'.next /\ out'.status = 0
           ELSE /\ out'.next <=> (/\ Present(out'.header)
                                  /\ Present(out'.cookie)
                                  /\ out'.header.value = out'.cookie.value)
                /\ (out'.next => out'.status = 0)
                /\ (~out'.next => out'.status = 403)]_vars

\* C16 witness: a POST whose header and cookie carry different issued
\* tokens has been answered 403 and not passed on.
C16_Witness ==
    /\ out.op = "csrfProtection"
    /\ out.method = "POST"
    /\ Present(out.header)
    /\ Present(out.cookie)
    /\ out.header # out.cookie
    /\ out.status = 403
    /\ ~out.next

\* C17 as stated: setCsrfToken sets the token in a cookie that is not
\* HttpOnly, so that the script of the page reads from document.cookie the
\* token the response header carries.
C17_Original ==
    [][out'.op = "setCsrfToken"
        => /\ ~jar'[CSRF_COOKIE_NAME].httpOnly
           /\ ScriptReadable(jar', CSRF_COOKIE_NAME) = out'.header]_vars

\* C17 amended: setCsrfToken draws a random token (the hex form of
\* CsrfTokenBytes random bytes) on each call, sets it as an HttpOnly cookie,
\* which document.cookie does not show, and puts the same value in the
\* x-csrf-token response header; a client that has read the token from that
\* header and sends it back in the header, with the cookie its browser
\* holds, is passed on by the guard on its next request, whatever the method.
C17_IssuedTokenPasses ==
    [][/\ out'.op = "setCsrfToken"
          => /\ out'.header \in CsrfTokens
             /\ Len(out'.header) = 2 * CsrfTokenBytes
             /\ jar'[CSRF_COOKIE_NAME].value = out'.header
             /\ jar'[CSRF_COOKIE_NAME].httpOnly
             /\ ScriptReadable(jar', CSRF_COOKIE_NAME) = ""
       /\ (/\ out.op = "readHeader"
           /\ out'.op = "csrfProtection"
           /\ out'.header = Str(page)
           /\ out'.cookie = CookieSent(jar, CSRF_COOKIE_NAME))
          => out'.next /\ out'.status = 0]_vars

\* C17 witness: a POST carrying the cookie the browser holds, which is
\* HttpOnly, and in its header the token the page holds has been passed on.
C17_Witness ==
    /\ out.op = "csrfProtection"
    /\ out.method = "POST"
    /\ out.next
    /\ page # ""
    /\ out.header = Str(page)
    /\ CSRF_COOKIE_NAME \in DOMAIN jar
    /\ jar[CSRF_COOKIE_NAME].httpOnly
    /\ out.cookie = CookieSent(jar, CSRF_COOKIE_NAME)


\* The number of times x occurs in the array.
Occurrences(array, x) == Cardinality({i \in 1 .. Len(array) : array[i] = x})

\* The log after the step is the log before it with one entry appended.
OneEntryAppended(before, after) ==
    /\ Len(after) = Len(before) + 1
    /\ SubSeq(after, 1, Len(before)) = before

\* C18 as stated: in every reachable state, with handlers on the same
\* organization interleaving between their select and their update, no
\* user id is in both employees and employeeRequests of an organization.
C18_MembershipDisjoint ==
    \A id \in DOMAIN organizations : \A u \in Users :
        ~(/\ Includes(organizations[id].employees, u)
          /\ Includes(organizations[id].employeeRequests, u))

\* C18 witness: the update of a membership request has just been applied
\* and its user is both an employee and a pending request of the
\* organization.
C18_Witness ==
    /\ out.op = "requestUpdate"
    /\ out.status = 200
    /\ Includes(organizations[out.id].employees, out.userId)
    /\ Includes(organizations[out.id].employeeRequests, out.userId)

\* C19 as stated: a membership request of a user who is already an employee
\* or already pending is rejected with a conflict and the organization is
\* unchanged, so that a request is only ever applied for a user who is
\* neither; when it is applied the user is appended to employeeRequests
\* (where it then occurs once), one entry naming the user is appended to
\* the activity log and employees is unchanged.
C19_RequestMembership ==
    [][\A id \in DOMAIN organizations : \A u \in Users :
        LET org == organizations[id]
            taken == Includes(org.employees, u) \/ Includes(org.employeeRequests, u)
        IN  /\ (/\ out'.op = "request" /\ out'.id = id /\ out'.userId = u
                /\ out'.status # 500
                /\ taken)
               => /\ out'.status = 400
                  /\ organizations' = organizations
                  /\ awaiting' = awaiting
            /\ (/\ out'.op = "requestUpdate" /\ out'.id = id /\ out'.userId = u
                /\ out'.status = 200)
               => /\ ~taken
                  /\ organizations'[id].employeeRequests = Append(org.employeeRequests, u)
                  /\ Occurrences(organizations'[id].employeeRequests, u) = 1
                  /\ OneEntryAppended(org.activityLog, organizations'[id].activityLog)
                  /\ organizations'[id].activityLog[Len(org.activityLog) + 1].employeeId = u
                  /\ organizations'[id].employees = org.employees]_vars

\* C19 witness: the update of a membership request has just been applied
\* to an organization in which its user is pending once and is no employee.
C19_Witness ==
    /\ out.op = "requestUpdate"
    /\ out.status = 200
    /\ Occurrences(organizations[out.id].employeeRequests, out.userId) = 1
    /\ ~Includes(organizations[out.id].employees, out.userId)

\* C20 as stated: resolving a request of an employeeId that is not pending
\* answers not-found and leaves the organization unchanged, so that a
\* resolution is only ever applied for a pending employeeId; when it is
\* applied the employeeId is no longer in employeeRequests, on approve it
\* then occurs in employees exactly once, on reject employees is unchanged,
\* and one entry naming the acting user and the outcome is appended to the
\* activity log.
C20_ResolveMembership ==
    [][\A id \in DOMAIN organizations : \A e \in Users :
        LET org == organizations[id]
        IN  /\ (/\ out'.op = "resolve" /\ out'.id = id /\ out'.employeeId = e
                /\ out'.status \notin {400, 401, 403, 500}
                /\ ~Includes(org.employeeRequests, e))
               => /\ out'.status = 404
                  /\ organizations' = organizations
                  /\ awaiting' = awaiting
            /\ (/\ out'.op = "resolveUpdate" /\ out'.id = id /\ out'.employeeId = e
                /\ out'.status = 200)
               => /\ Includes(org.employeeRequests, e)
                  /\ ~Includes(organizations'[id].employeeRequests, e)
                  /\ (out'.action = "approve"
                       => Occurrences(organizations'[id].employees, e) = 1)
                  /\ (out'.action = "reject"
                       => organizations'[id].employees = org.employees)
                  /\ OneEntryAppended(org.activityLog, organizations'[id].activityLog)
                  /\ organizations'[id].activityLog[Len(org.activityLog) + 1]
                       = LogEntry(out'.userId, "Employee request " \o out'.action \o "d")]_vars

\* C20 witness: an approval has just been applied and its employeeId is an
\* employee of the organization and no longer pending.
C20_Witness ==
    /\ out.op = "resolveUpdate"
    /\ out.status = 200
    /\ out.action = "approve"
    /\ Includes(organizations[out.id].employees, out.employeeId)
    /\ ~Includes(organizations[out.id].employeeRequests, out.employeeId)

\* The membership status of user u in organization row org.
Status(org, u) ==
    IF Includes(org.employees, u) THEN "Member"
    ELSE IF Includes(org.employeeRequests, u) THEN "RequestPending"
    ELSE "NonMember"

\* C21 as stated: in every step on an existing organization, with handlers
\* interleaving between their select and their update, the status of a user
\* stays or changes by NonMember -> RequestPending (the update of a
\* membership request), RequestPending -> Member (the update of an approve)
\* or RequestPending -> NonMember (the update of a reject); a Member stays a
\* Member and no NonMember becomes a Member.
C21_MembershipStateMachine ==
    [][\A id \in DOMAIN organizations : \A u \in Users :
        LET before == Status(organizations[id], u)
            after == Status(organizations'[id], u)
        IN  \/ after = before
            \/ /\ before = "NonMember" /\ after = "RequestPending"
               /\ out'.op = "requestUpdate" /\ out'.userId = u
            \/ /\ before = "RequestPending" /\ after = "Member"
               /\ out'.op = "resolveUpdate" /\ out'.employeeId = u
               /\ out'.action = "approve"
            \/ /\ before = "RequestPending" /\ after = "NonMember"
               /\ out'.op = "resolveUpdate" /\ out'.employeeId = u
               /\ out'.action = "reject"]_vars

\* C21 witness: the update of a reject has just been applied and its
\* employeeId is neither an employee nor pending.
C21_Witness ==
    /\ out.op = "resolveUpdate"
    /\ out.status = 200
    /\ out.action = "reject"
    /\ Status(organizations[out.id], out.employeeId) = "NonMember"

\* ceiling(category) of the claim.
Ceiling(category) ==
    IF category = "emergency" THEN 25000
    ELSE IF category = "recurring" THEN 15000
    ELSE 10000

\* C23: the decision is a function of (cost, category, requesterIsAdmin):
\* approved if and only if the requester is an admin or cost is at most
\* the ceiling of the category (default 10000, emergency 25000, recurring
\* 15000), an unspecified category counting as default; so a non-admin is
\* approved for 5000/default and for 20000/emergency, rejected for
\* 20000/default, and an admin is approved for any cost.
C23_ApprovalRule ==
    out.op = "decide"
    => /\ out.approved
           <=> (out.isAdmin
                \/ out.cost <= Ceiling(IF out.category = "" THEN "default"
                                       ELSE out.category))
       /\ ((~out.isAdmin /\ out.cost = 5000 /\ out.category \in {"", "default"})
            => out.approved)
       /\ ((~out.isAdmin /\ out.cost = 20000 /\ out.category \in {"", "default"})
            => ~out.approved)
       /\ ((~out.isAdmin /\ out.cost = 20000 /\ out.category = "emergency")
            => out.approved)
       /\ (out.isAdmin => out.approved)

\* C23 witness: a recurring transaction of a non-admin above the default
\* ceiling and at the recurring ceiling has been approved.
C23_Witness ==
    /\ out.op = "decide"
    /\ ~out.isAdmin
    /\ out.category = "recurring"
    /\ out.cost = 15000
    /\ out.approved

\* The log before a step is a prefix of the log after it.
IsPrefix(before, after) ==
    /\ Len(before) <= Len(after)
    /\ SubSeq(after, 1, Len(before)) = before

\* C22 as stated: the activity log of an organization is append-only.  On
\* every step of the creation and transaction handlers, with handlers
\* interleaving between their select and their update, an organization that
\* exists stays and its log before the step is a prefix of its log after.
C22_LogAppendOnly ==
    [][\A id \in DOMAIN organizations :
        /\ id \in DOMAIN organizations'
        /\ IsPrefix(organizations[id].activityLog,
                    organizations'[id].activityLog)]_vars

\* C22 witness: the update of a transaction has just been applied and the
\* log holds the creation entry and two transaction entries.
C22_Witness ==
    /\ out.op = "verifyTransactionUpdate"
    /\ out.status = 200
    /\ Len(organizations[out.id].activityLog) >= 3
    /\ organizations[out.id].activityLog[3].cost = out.cost

\* C30 as stated: a transaction request that was refused with 401, 400, 404
\* or 403 leaves every organization unchanged, and one that reached a
\* decision and was answered appends exactly one entry to the log of its
\* organization, recording the actor, the cost, the category and the
\* outcome, and leaves employees, employeeRequests and adminUsers as they
\* were.
C30_VerifyTransaction ==
    [][/\ (out'.op = "verifyTransaction" /\ out'.status \in {401, 400, 404, 403})
          => organizations' = organizations
       /\ (out'.op = "verifyTransactionUpdate" /\ out'.status = 200)
          => LET before == organizations[out'.id]
                 after == organizations'[out'.id]
                 entry == after.activityLog[Len(after.activityLog)]
             IN  /\ OneEntryAppended(before.activityLog, after.activityLog)
                 /\ entry.employeeId = out'.userId
                 /\ entry.cost = out'.cost
                 /\ entry.details.category = out'.category
                 /\ entry.details.approvalReason = out'.message
                 /\ entry.action = "Business transaction "
                        \o (IF approved(out'.cost, out'.category,
                                        IsAdmin(before, out'.userId))
                            THEN "approved" ELSE "rejected")
                 /\ after.employees = before.employees
                 /\ after.employeeRequests = before.employeeRequests
                 /\ after.adminUsers = before.adminUsers]_vars

\* C30 witness: an approved emergency transaction above the default ceiling
\* has just been recorded as the last entry of the log.
C30_Witness ==
    /\ out.op = "verifyTransactionUpdate"
    /\ out.status = 200
    /\ out.category = "emergency"
    /\ LET log == organizations[out.id].activityLog
       IN  /\ log[Len(log)].action = "Business transaction approved"
           /\ log[Len(log)].cost > DefaultCeiling

\* The digits of a routing number: its characters that are digits, as
\* numbers, in order.
DigitsOf(routingNumber) ==
    LET kept == SelectSeq(routingNumber,
                          LAMBDA c : c \in {DigitChars[i] : i \in 1 .. 10})
    IN  [i \in 1 .. Len(kept) |->
            CHOOSE n \in 0 .. 9 : DigitChars[n + 1] = kept[i]]

\* C24: validateRoutingNumber accepts a string exactly when, with every
\* character that is not a digit removed, it has nine digits, it does not
\* start with 00 and is neither 111111111 nor 123456789, its first two
\* digits are in 01 .. 12, and 3(d1+d4+d7) + 7(d2+d5+d8) + (d3+d6+d9) is a
\* multiple of 10.
C24_RoutingNumber ==
    out.op = "validateRoutingNumber"
    => LET d == DigitsOf(out.routingNumber)
       IN  out.valid
           <=> /\ Len(d) = 9
               /\ ~(d[1] = 0 /\ d[2] = 0)
               /\ d # <<1, 1, 1, 1, 1, 1, 1, 1, 1>>
               /\ d # <<1, 2, 3, 4, 5, 6, 7, 8, 9>>
               /\ 10 * d[1] + d[2] \in 1 .. 12
               /\ (3 * (d[1] + d[4] + d[7]) + 7 * (d[2] + d[5] + d[8])
                   + (d[3] + d[6] + d[9])) % 10 = 0

\* C24 witness: 021000021, typed with a separator, has been accepted.
C24_Witness ==
    /\ out.op = "validateRoutingNumber"
    /\ out.routingNumber = <<"0", "2", "1", "0", "-", "0", "0", "0", "2", "1">>
    /\ out.valid

\* C28: only current employees resolve membership requests.  A resolution
\* (a valid action by an authenticated user on an existing organization,
\* the database answering) by an actor who is not in employees when it is
\* called, the pending user included, is answered 403 and leaves
\* employees, employeeRequests and activityLog as they were, with no update
\* left to come; and every resolution that goes on to its update was called
\* by a user who was in employees of the row it selected.
C28_OnlyMembersResolve ==
    [][/\ (/\ out'.op = "resolve"
           /\ out'.status \notin {400, 401, 500}
           /\ out'.id \in DOMAIN organizations
           /\ \A i \in 1 .. Len(organizations[out'.id].employees) :
                  organizations[out'.id].employees[i] # out'.userId)
          => /\ out'.status = 403
             /\ organizations' = organizations
             /\ awaiting' = awaiting
       /\ \A h \in BagToSet(awaiting') :
              h.op = "resolve"
              => \E i \in 1 .. Len(h.organization.employees) :
                     h.organization.employees[i] = h.userId]_vars

\* C28 witness: a pending user has just tried to approve their own request
\* and was refused.
C28_Witness ==
    /\ out.op = "resolve"
    /\ out.status = 403
    /\ out.action = "approve"
    /\ out.userId = out.employeeId
    /\ out.id \in DOMAIN organizations
    /\ Includes(organizations[out.id].employeeRequests, out.userId)
    /\ ~Includes(organizations[out.id].employees, out.userId)

\* C29: every record stored in the rate-limit map has a count between 1 and
\* MAX_REQUESTS + 1, and its count is MAX_REQUESTS + 1 exactly when its
\* blockedUntil is set; and a request of one client leaves the record of
\* every other client, stored or not, as it was.
C29_RecordBounds ==
    [][/\ \A ip \in DOMAIN rateLimitMap' :
              /\ rateLimitMap'[ip].count >= 1
              /\ rateLimitMap'[ip].count <= MAX_REQUESTS + 1
              /\ (rateLimitMap'[ip].count = MAX_REQUESTS + 1
                  <=> "blockedUntil" \in DOMAIN rateLimitMap'[ip])
       /\ \A ip \in Clients :
              (out'.op = "rateLimiter" /\ out'.ip # ip)
              => /\ (ip \in DOMAIN rateLimitMap' <=> ip \in DOMAIN rateLimitMap)
                 /\ (ip \in DOMAIN rateLimitMap
                     => rateLimitMap'[ip] = rateLimitMap[ip])]_vars

\* C29 witness: a request of one client has just been counted while the
\* other client has a stored record that is blocked at MAX_REQUESTS + 1.
C29_Witness ==
    /\ out.op = "rateLimiter"
    /\ out.status = 0
    /\ rateLimitMap[out.ip].count \in 1 .. MAX_REQUESTS
    /\ "blockedUntil" \notin DOMAIN rateLimitMap[out.ip]
    /\ \E ip \in DOMAIN rateLimitMap \ {out.ip} :
           /\ rateLimitMap[ip].count = MAX_REQUESTS + 1
           /\ "blockedUntil" \in DOMAIN rateLimitMap[ip]

\* C27 as stated: no route handler runs on behalf of a revoked session.
\* Whenever authMiddleware, back from the user lookup, passes a request on
\* with an identity attached, the session the request came with is still
\* in the store.
C27_NoHandlerAfterRevocation ==
    [][(out'.op = "authResume" /\ out'.next)
       => out'.sid \in DOMAIN sessions']_vars

\* C27 witness: a request suspended on the user lookup has been passed on
\* with the identity of its session, which is in the store.
C27_Witness ==
    /\ out.op = "authResume"
    /\ out.next
    /\ out.sid \in DOMAIN sessions
    /\ sessions[out.sid].userId = out.user

\* The place of a layer among the layers a request went through, 0 when it
\* did not go through it.
PlaceOf(passed, layer) ==
    IF \E i \in 1 .. Len(passed) : passed[i] = layer
    THEN CHOOSE i \in 1 .. Len(passed) : passed[i] = layer
    ELSE 0

\* C25 as stated: a request that has reached a route handler went through
\* the rate limiter, then, if its method changes state, through the CSRF
\* guard, then through the auth middleware, before the layer that ran the
\* handler.
C25_PipelineOrder ==
    (out.op = "pipeline" /\ out.handler \in RouteHandlers)
    => LET limited == PlaceOf(out.passed, "rateLimiter")
           guarded == PlaceOf(out.passed, "csrfProtection")
           authenticated == PlaceOf(out.passed, "authMiddleware")
       IN  /\ limited > 0
           /\ authenticated > limited
           /\ authenticated < Len(out.passed)
           /\ (out.method \notin {"GET", "HEAD", "OPTIONS"}
               => guarded > limited /\ guarded < authenticated)

\* C25 witness: POST /api/register has reached its route handler through
\* the global middleware.
C25_Witness ==
    /\ out.op = "pipeline"
    /\ out.handler = "register"
    /\ out.method = "POST"
    /\ out.passed = <<"cors", "express.json", "express.urlencoded", "cookieParser",
                      "logging", "POST /api/register">>

=============================================================================
